---- MODULE Spec2Model ----
(***************************************************************************)
(* Model of the a2sapi server-list retrieval: retrieve (master query, the  *)
(* per-kind batches getPlayersForServers / getRulesForServers /            *)
(* getInfoForServers with their retry step, buildServerList and            *)
(* setServerIDForList), of the scheduler Run, of the A2S_INFO decoder       *)
(* parseServerInfo and of the servers table under AddServersToDB.          *)
(***************************************************************************)
EXTENDS Integers, Sequences, FiniteSets, TLC

\* Longest host list the master query returns in the model.
MaxHosts == 2
\* Retry rounds of the players and rules batches (the value is set outside
\* the modelled files; part_000:174 and :207 only name it).
QueryRetryCount == 1
\* Retry rounds of the info batch, the literal at part_000:140.
InfoRetryCount == 3

\* A HostAddress "ip:port" is the pair <<ip, port>>.
HostA == <<1, 1>>
HostB == <<1, 2>>
HostC == <<2, 1>>
HostAddrs == {HostA, HostB, HostC}

\* ExtraData.Port values an info reply can carry (0: no game port).
GamePorts == {0, 2}

Kinds == {"players", "rules", "info"}
Events == {"reply", "timeout", "malformed"}

\* A Go map is a function on the set of its keys; the nil map has no keys.
EmptyMap == [h \in {} |-> "nil"]
Put(map, k, v) == [x \in (DOMAIN map) \cup {k} |-> IF x = k THEN v ELSE map[x]]
Range(s) == {s[i] : i \in DOMAIN s}

\* The order in which the master lists the hosts it knows; it is not the
\* order of their addresses.
MasterOrder == <<HostB, HostA, HostC>>
MasterIndex(h) == CHOOSE i \in DOMAIN MasterOrder : MasterOrder[i] = h

\* Deduplicated host sequences of length 0..MaxHosts: the selections of
\* MasterOrder. The hosts of a sequence all meet the same events, so any
\* other order of the same hosts is one of these runs with hosts renamed.
HostSeqs == {s \in UNION {[1..n -> HostAddrs] : n \in 0..MaxHosts} :
               \A i, j \in DOMAIN s :
                  i < j => MasterIndex(s[i]) < MasterIndex(s[j])}

Filters == [HasIgnoreInfo : BOOLEAN, HasIgnorePlayers : BOOLEAN,
            HasIgnoreRules : BOOLEAN]
DefaultFilter == [HasIgnoreInfo |-> FALSE, HasIgnorePlayers |-> FALSE,
                  HasIgnoreRules |-> FALSE]

VARIABLES
  filter,        \* the *filters.Filter retrieve is called with
  master,        \* environment: what NewMasterQuery can answer
  net,           \* environment: net[h][k], events host h can show for kind k
  pc,            \* position of retrieve
  result,        \* what retrieve returned
  servers,       \* mq.Servers
  masterQueried, \* NewMasterQuery has gone to the network in this call
  hostQueried,   \* a single-host query has been sent in this call
  kindsQueried,  \* the kinds of the single-host queries sent in this call
  attempts,      \* attempts[h]: queries the running batch has sent to h
  bpc,           \* position inside the running per-kind batch
  wg,            \* the batch's sync.WaitGroup counter
  wpc,           \* wpc[h]: position of the worker goroutine of host h
  wres,          \* wres[h]: (value, err) the worker's query returned
  m,             \* the batch's success map
  failed,        \* the batch's failed slice, as the set of its hosts
  round,         \* retry rounds started so far
  f,             \* retry step: hosts still failing
  retried,       \* retry step: its result map
  playermap, rulemap, infomap,  \* players, rules, info of retrieve
  bi,            \* buildServerList: index of the host the loop is at
  sl,            \* buildServerList: the serverList under construction
  dbhosts,       \* buildServerList: hosts handed to AddServersToDB
  srv,           \* buildServerList: the server of the running iteration
  loc,           \* buildServerList: the channel of the country lookup
  idpc,          \* position of the GetIDsForServerList goroutine
  idtodo,        \* GetIDsForServerList: hosts it has not yet queried
  idres,         \* GetIDsForServerList: hosts its map gives a non-zero ID
  runpc,         \* position of Run
  stopbuf,       \* signals buffered in the stop channel
  tick,          \* ticks buffered in retrticker.C
  ticking,       \* the ticker has not been stopped
  batch,         \* batch[i]: state of the i-th retrieve call Run made
  stopDelivered, \* a stop signal has been sent on the stop channel
  exited,        \* main returned: the process is gone
  pkt,           \* parseServerInfo: the bytes it is given
  ppos,          \* parseServerInfo: index of the next byte to read
  pfield,        \* parseServerInfo: the field it reads next
  sinfo,         \* parseServerInfo: the ServerInfo under construction
  perr,          \* parseServerInfo: the error it returns
  table,         \* rows of the servers table, in server_id order
  call           \* call[c]: state of the c-th AddServersToDB call

retrVars == <<filter, master, net, pc, result, servers, masterQueried,
              hostQueried, kindsQueried, attempts,
              bpc, wg, wpc, wres, m, failed, round, f, retried,
              playermap, rulemap, infomap, bi, sl, dbhosts,
              srv, loc, idpc, idtodo, idres>>
schedVars == <<runpc, stopbuf, tick, ticking, batch, stopDelivered, exited>>
vars == <<filter, master, net, pc, result, servers, masterQueried,
          hostQueried, kindsQueried, attempts,
          bpc, wg, wpc, wres, m, failed, round, f, retried,
          playermap, rulemap, infomap, bi, sl, dbhosts,
          srv, loc, idpc, idtodo, idres,
          runpc, stopbuf, tick, ticking, batch, stopDelivered, exited,
          pkt, ppos, pfield, sinfo, perr, table, call>>
codecVars == <<pkt, ppos, pfield, sinfo, perr>>
dbVars == <<table, call>>
auxVars == <<codecVars, dbVars>>
batchVars == <<bpc, wg, wpc, wres, m, failed, round, f, retried>>
buildVars == <<bi, sl, dbhosts, srv, loc, idpc, idtodo, idres>>

(***************************************************************************)
(* Single-host query and the worker of a per-kind batch.                   *)
(***************************************************************************)

\* The error GetInfoForServer / GetPlayersForServer / GetRulesForServer
\* return for what the host did: a timeout is the kind's no-data error.
QueryErr(kind, ev) ==
  CASE ev = "reply" -> "nil"
    [] ev = "malformed" -> "MalformedPacket"
    [] ev = "timeout" /\ kind = "info" -> "ErrNoInfo"
    [] ev = "timeout" /\ kind = "players" -> "ErrNoPlayers"
    [] ev = "timeout" /\ kind = "rules" -> "ErrNoRules"

\* The value returned with it. An info reply is a *ServerInfo, of which the
\* model keeps ExtraData.Port; a roster or a rule set is "data" whatever it
\* holds (it is empty with ErrNoPlayers / ErrNoRules); otherwise nil.
QueryVal(kind, ev, gp) ==
  CASE kind = "info" /\ ev = "reply" -> [Port |-> gp]
    [] kind # "info" /\ ev \in {"reply", "timeout"} -> "data"
    [] OTHER -> "nil"

NoRes == [err |-> "none", val |-> "nil"]

\* Variant: the info worker lets a malformed reply pass as no failure.
InfoWorkerFails_SkipsMalformed(err) == err # "nil" /\ err # "MalformedPacket"

\* getInfoForServers: `if err != nil`.
InfoWorkerFails(err) == err # "nil"
\* Variant: the players worker without the ErrNoPlayers exemption.
PlayersWorkerFails_NoExemption(err) == err # "nil"

\* getPlayersForServers: `if err != nil { if err != ErrNoPlayers {`.
PlayersWorkerFails(err) == err # "nil" /\ err # "ErrNoPlayers"
\* getRulesForServers: `if err != nil { if err != ErrNoRules {`.
RulesWorkerFails(err) == err # "nil" /\ err # "ErrNoRules"

WorkerFails(kind, err) ==
  CASE kind = "info" -> InfoWorkerFails(err)
    [] kind = "players" -> PlayersWorkerFails(err)
    [] kind = "rules" -> RulesWorkerFails(err)

\* Variant: a failing worker appends to failed and still stores into m.
RecordOutcome_StoresOnFailure(kind, h, res, mm, ff) ==
  IF WorkerFails(kind, res.err)
    THEN [m |-> Put(mm, h, res.val), failed |-> ff \cup {h}]
    ELSE [m |-> Put(mm, h, res.val), failed |-> ff]

\* Variant: a failing worker returns without appending its host to failed.
RecordOutcome_DropsFailure(kind, h, res, mm, ff) ==
  IF WorkerFails(kind, res.err)
    THEN [m |-> mm, failed |-> ff]
    ELSE [m |-> Put(mm, h, res.val), failed |-> ff]

\* Variant: the failing worker appends to a stale copy of failed, as without
\* the mutex: the hosts appended before are lost.
RecordOutcome_StaleAppend(kind, h, res, mm, ff) ==
  IF WorkerFails(kind, res.err)
    THEN [m |-> mm, failed |-> {h}]
    ELSE [m |-> Put(mm, h, res.val), failed |-> ff]

\* What a worker does under the mutex with its query's result: append the
\* host to failed, or store the value under the host in m. The failed slice
\* is only ever ranged over by the retry step, so the model keeps its hosts
\* and not their order.
RecordOutcome(kind, h, res, mm, ff) ==
  IF WorkerFails(kind, res.err)
    THEN [m |-> mm, failed |-> ff \cup {h}]
    ELSE [m |-> Put(mm, h, res.val), failed |-> ff]

\* The retry count each batch passes to its retry step.
RetryCount(kind) == IF kind = "info" THEN InfoRetryCount ELSE QueryRetryCount

\* Variant: the retried map replaces the batch's map.
MergeRetried_ReplacesMap(mm, rr) ==
  [x \in DOMAIN rr |-> rr[x]]

\* `for k, v := range retried { m[k] = v }`.
MergeRetried(mm, rr) ==
  [x \in (DOMAIN mm) \cup (DOMAIN rr) |->
     IF x \in DOMAIN rr THEN rr[x] ELSE mm[x]]

Ignored(flt, kind) ==
  CASE kind = "info" -> flt.HasIgnoreInfo
    [] kind = "players" -> flt.HasIgnorePlayers
    [] kind = "rules" -> flt.HasIgnoreRules

AllIgnored(flt) ==
  flt.HasIgnoreInfo /\ flt.HasIgnorePlayers /\ flt.HasIgnoreRules

\* Variant: the info batch is called before the rules batch.
NextPc_InfoBeforeRules(kind) ==
  CASE kind = "players" -> "info"
    [] kind = "info" -> "rules"
    [] kind = "rules" -> "build"

\* retrieve runs players, then rules, then info, then buildServerList.
NextPc(kind) ==
  CASE kind = "players" -> "rules"
    [] kind = "rules" -> "info"
    [] kind = "info" -> "build"

NoWorkers == [h \in HostAddrs |-> "none"]
NoResults == [h \in HostAddrs |-> NoRes]
NoAttempts == [h \in HostAddrs |-> 0]
EmptyList == [Servers |-> <<>>, FailedServers |-> <<>>,
              ServerCount |-> 0, FailedCount |-> 0]

(***************************************************************************)
(* retrieve                                                                *)
(***************************************************************************)

\* NewMasterQuery: goes to the master server; an error ends retrieve.
MasterQuery ==
  /\ pc = "start"
  /\ masterQueried' = TRUE
  /\ \E answer \in master :
       IF answer.err
         THEN /\ pc' = "done"
              /\ result' = "MasterError"
              /\ UNCHANGED servers
         ELSE /\ pc' = "check"
              /\ servers' = answer.Servers
              /\ UNCHANGED result
  /\ UNCHANGED <<filter, master, net, hostQueried, kindsQueried, attempts,
                 playermap, rulemap, infomap>>
  /\ UNCHANGED <<batchVars, buildVars, schedVars, auxVars>>

\* The all-three-ignored check of retrieve.
CheckIgnore ==
  /\ pc = "check"
  /\ IF AllIgnored(filter)
       THEN pc' = "done" /\ result' = "ConfigError"
       ELSE pc' = "players" /\ UNCHANGED result
  /\ UNCHANGED <<filter, master, net, servers, masterQueried,
                 hostQueried, kindsQueried, attempts,
                 playermap, rulemap, infomap>>
  /\ UNCHANGED <<batchVars, buildVars, schedVars, auxVars>>

\* `if !filter.HasIgnoreX` is false: the kind's batch is not called.
SkipKind ==
  /\ pc \in Kinds
  /\ bpc = "idle"
  /\ Ignored(filter, pc)
  /\ pc' = NextPc(pc)
  /\ UNCHANGED <<filter, master, net, result, servers, masterQueried,
                 hostQueried, kindsQueried, attempts,
                 playermap, rulemap, infomap>>
  /\ UNCHANGED <<batchVars, buildVars, schedVars, auxVars>>

\* The launch loop of a batch: wg.Add(1) and one goroutine per host.
BatchLaunch ==
  /\ pc \in Kinds
  /\ bpc = "idle"
  /\ ~Ignored(filter, pc)
  /\ bpc' = "wait"
  /\ wg' = Len(servers)
  /\ wpc' = [h \in HostAddrs |->
              IF h \in Range(servers) THEN "query" ELSE "none"]
  /\ m' = EmptyMap
  /\ failed' = {}
  /\ UNCHANGED <<filter, master, net, pc, result, servers, masterQueried,
                 hostQueried, kindsQueried, attempts, wres, round, f, retried,
                 playermap, rulemap, infomap>>
  /\ UNCHANGED <<buildVars, schedVars, auxVars>>

\* A worker's single-host query returns (first round or a retry round).
WorkerQuery(h) ==
  /\ bpc \in {"wait", "retrywait"}
  /\ wpc[h] = "query"
  /\ \E ev \in net[h][pc], gp \in GamePorts :
       /\ (pc # "info" \/ ev # "reply") => gp = 0
       /\ wres' = [wres EXCEPT ![h] = [err |-> QueryErr(pc, ev),
                                       val |-> QueryVal(pc, ev, gp)]]
  /\ wpc' = [wpc EXCEPT ![h] = "got"]
  /\ attempts' = [attempts EXCEPT ![h] = @ + 1]
  /\ hostQueried' = TRUE
  /\ kindsQueried' = kindsQueried \cup {pc}
  /\ UNCHANGED <<filter, master, net, pc, result, servers, masterQueried,
                 bpc, wg, m, failed, round, f, retried,
                 playermap, rulemap, infomap>>
  /\ UNCHANGED <<buildVars, schedVars, auxVars>>

\* Variant: the failing path of a worker returns without wg.Done.
WgDone_SkippedOnFailure(kind, err, n) ==
  IF WorkerFails(kind, err) THEN n ELSE n - 1

\* The WaitGroup counter after a worker's wg.Done: the failing path and the
\* storing path each call it once before they return.
WgDone(kind, err, n) == n - 1

\* A first-round worker records its result between mut.Lock and mut.Unlock:
\* the critical section is one step, and wg.Done is not part of it.
WorkerRecord(h) ==
  /\ bpc = "wait"
  /\ wpc[h] = "got"
  /\ LET out == RecordOutcome(pc, h, wres[h], m, failed)
     IN  m' = out.m /\ failed' = out.failed
  /\ wpc' = [wpc EXCEPT ![h] = "recorded"]
  /\ UNCHANGED <<filter, master, net, pc, result, servers, masterQueried,
                 hostQueried, kindsQueried, attempts,
                 bpc, wg, wres, round, f, retried,
                 playermap, rulemap, infomap>>
  /\ UNCHANGED <<buildVars, schedVars, auxVars>>

\* A first-round worker that has released the mutex calls wg.Done and ends.
WorkerDone(h) ==
  /\ bpc = "wait"
  /\ wpc[h] = "recorded"
  /\ wg' = WgDone(pc, wres[h].err, wg)
  /\ wpc' = [wpc EXCEPT ![h] = "done"]
  /\ UNCHANGED <<filter, master, net, pc, result, servers, masterQueried,
                 hostQueried, kindsQueried, attempts,
                 bpc, m, failed, wres, round, f, retried,
                 playermap, rulemap, infomap>>
  /\ UNCHANGED <<buildVars, schedVars, auxVars>>

\* wg.Wait returns and the batch calls its retry step with failed.
BatchWaitDone ==
  /\ bpc = "wait"
  /\ wg = 0
  /\ bpc' = "retry"
  /\ round' = 0
  /\ f' = failed
  /\ retried' = EmptyMap
  /\ wpc' = NoWorkers
  /\ wres' = NoResults
  /\ UNCHANGED <<filter, master, net, pc, result, servers, masterQueried,
                 hostQueried, kindsQueried, attempts, wg, m, failed,
                 playermap, rulemap, infomap>>
  /\ UNCHANGED <<buildVars, schedVars, auxVars>>

\* Retry step: one more round over the hosts still failing.
RetryRound ==
  /\ bpc = "retry"
  /\ round < RetryCount(pc)
  /\ f # {}
  /\ bpc' = "retrywait"
  /\ round' = round + 1
  /\ wg' = Cardinality(f)
  /\ wpc' = [h \in HostAddrs |-> IF h \in f THEN "query" ELSE "none"]
  /\ UNCHANGED <<filter, master, net, pc, result, servers, masterQueried,
                 hostQueried, kindsQueried, attempts,
                 wres, m, failed, f, retried,
                 playermap, rulemap, infomap>>
  /\ UNCHANGED <<buildVars, schedVars, auxVars>>

\* Retry step: a worker of a retry round folds a success into the retry map.
RetryRecord(h) ==
  /\ bpc = "retrywait"
  /\ wpc[h] = "got"
  /\ IF WorkerFails(pc, wres[h].err)
       THEN UNCHANGED <<f, retried>>
       ELSE f' = f \ {h} /\ retried' = Put(retried, h, wres[h].val)
  /\ wg' = wg - 1
  /\ wpc' = [wpc EXCEPT ![h] = "done"]
  /\ wres' = [wres EXCEPT ![h] = NoRes]
  /\ UNCHANGED <<filter, master, net, pc, result, servers, masterQueried,
                 hostQueried, kindsQueried, attempts, bpc, m, failed, round,
                 playermap, rulemap, infomap>>
  /\ UNCHANGED <<buildVars, schedVars, auxVars>>

\* Retry step: the round's workers have all finished.
RetryWaitDone ==
  /\ bpc = "retrywait"
  /\ wg = 0
  /\ bpc' = "retry"
  /\ wpc' = NoWorkers
  /\ wres' = NoResults
  /\ UNCHANGED <<filter, master, net, pc, result, servers, masterQueried,
                 hostQueried, kindsQueried, attempts,
                 wg, m, failed, round, f, retried,
                 playermap, rulemap, infomap>>
  /\ UNCHANGED <<buildVars, schedVars, auxVars>>

\* The retry step has returned; the batch merges its map into m.
BatchMerge ==
  /\ bpc = "retry"
  /\ round = RetryCount(pc) \/ f = {}
  /\ bpc' = "merged"
  /\ m' = MergeRetried(m, retried)
  /\ UNCHANGED <<filter, master, net, pc, result, servers, masterQueried,
                 hostQueried, kindsQueried, attempts,
                 wg, wpc, wres, failed, round, f,
                 retried,
                 playermap, rulemap, infomap>>
  /\ UNCHANGED <<buildVars, schedVars, auxVars>>

\* `return m`: retrieve keeps the map and goes on to the next kind.
BatchReturn ==
  /\ bpc = "merged"
  /\ bpc' = "idle"
  /\ playermap' = IF pc = "players" THEN m ELSE playermap
  /\ rulemap' = IF pc = "rules" THEN m ELSE rulemap
  /\ infomap' = IF pc = "info" THEN m ELSE infomap
  /\ pc' = NextPc(pc)
  /\ m' = EmptyMap
  /\ failed' = {}
  /\ round' = 0
  /\ f' = {}
  /\ retried' = EmptyMap
  /\ attempts' = NoAttempts
  /\ UNCHANGED <<filter, master, net, result, servers, masterQueried,
                 hostQueried, kindsQueried, wg, wpc, wres>>
  /\ UNCHANGED <<buildVars, schedVars, auxVars>>

(***************************************************************************)
(* The servers table and AddServersToDB                                    *)
(***************************************************************************)

\* Most AddServersToDB calls in the model.
MaxCalls == 2

\* filters.GameUnspecified.String()
GameUnspecified == "Unspecified"
Games == {"QuakeLive", GameUnspecified}
DBHosts == {HostA, HostB}

\* The game of the list retrieve builds. buildServerList hands its hosts over
\* as a []string, AddServersToDB and GetIDsForServerList take a
\* map[string]string from host to game: every host of the slice is a key
\* (a host that is in the slice twice is one key) and its value is ListGame.
ListGame == "QuakeLive"
HostsGames(hosts) == [h \in hosts |-> ListGame]

\* The hostsgames maps a call is given.
HostGameMaps == UNION {[hs -> Games] : hs \in SUBSET DBHosts}

NoCall ==
  [pc |-> "idle", hostsgames |-> EmptyMap, tocheck |-> {}, toInsert |-> {},
   toexec |-> {}, txrows |-> <<>>, txexecerr |-> FALSE, tx |-> "none",
   txcalls |-> <<>>, stored |-> <<>>]

\* No AddServersToDB call has been made; the table is as created.
DBIdle ==
  /\ table = <<>>
  /\ call = [c \in 1..MaxCalls |-> NoCall]

\* serverExists without an error: a committed row has the host and the game.
ServerExists(rows, host, game) ==
  \E i \in DOMAIN rows : rows[i].host = host /\ rows[i].game = game

\* Variant: a host is queued for insertion without looking for its row.
QueuedForInsert_NoLookup(rows, host, game, qerr) ==
  game # GameUnspecified /\ (qerr \/ rows = rows)

\* The first loop of AddServersToDB for one entry: it is queued unless the
\* game is Unspecified, serverExists failed (qerr) or the row exists.
QueuedForInsert(rows, host, game, qerr) ==
  game # GameUnspecified /\ ~qerr /\ ~ServerExists(rows, host, game)

\* In a call record, txcalls lists the calls made to finish the transaction
\* (Rollback, Commit) and stored the rows the call's commit has put in the
\* table.

\* A call that has just been entered with the map hg.
StartedCall(hg) ==
  [NoCall EXCEPT !.pc = "check", !.hostsgames = hg, !.tocheck = DOMAIN hg]

\* A call starts with any hostsgames map; calls start in their order.
AddStart(c) ==
  /\ call[c].pc = "idle"
  /\ IF c = 1 THEN TRUE ELSE call[c - 1].pc # "idle"
  /\ \E hg \in HostGameMaps :
       call' = [call EXCEPT ![c] = StartedCall(hg)]
  /\ UNCHANGED <<table, retrVars, schedVars, codecVars>>

\* First loop, one entry of the map (a Go map is ranged over in any order).
AddCheck(c) ==
  /\ call[c].pc = "check"
  /\ \E h \in call[c].tocheck, qerr \in BOOLEAN :
       call' = [call EXCEPT
                  ![c].tocheck = @ \ {h},
                  ![c].toInsert =
                     IF QueuedForInsert(table, h, call[c].hostsgames[h], qerr)
                       THEN @ \cup {h} ELSE @]
  /\ UNCHANGED <<table, retrVars, schedVars, codecVars>>

\* sdb.db.Begin(): on error the call returns.
AddBegin(c) ==
  /\ call[c].pc = "check"
  /\ call[c].tocheck = {}
  /\ \E ok \in BOOLEAN :
       call' = IF ok
                 THEN [call EXCEPT ![c].pc = "exec", ![c].tx = "open",
                                   ![c].toexec = call[c].toInsert]
                 ELSE [call EXCEPT ![c].pc = "returned"]
  /\ UNCHANGED <<table, retrVars, schedVars, codecVars>>

\* SQLite has one writer: an INSERT succeeds only while no other open
\* transaction holds inserted rows.
WriteLockFree(c) ==
  \A c2 \in 1..MaxCalls :
    c2 # c => ~(call[c2].tx = "open" /\ call[c2].txrows # <<>>)

\* Second loop, one tx.Exec: the row is pending in the transaction, or the
\* exec fails, which ends the loop.
AddExec(c) ==
  /\ call[c].pc = "exec"
  /\ \E h \in call[c].toexec :
       \/ /\ WriteLockFree(c)
          /\ call' = [call EXCEPT
                        ![c].toexec = @ \ {h},
                        ![c].txrows =
                           Append(@, [host |-> h,
                                      game |-> call[c].hostsgames[h]])]
       \/ call' = [call EXCEPT ![c].txexecerr = TRUE, ![c].pc = "finish"]
  /\ UNCHANGED <<table, retrVars, schedVars, codecVars>>

\* After the second loop: `if txexecerr != nil` the transaction is rolled
\* back, and the call returns only if the rollback itself failed.
AddRollback(c) ==
  /\ \/ call[c].pc = "finish"
     \/ call[c].pc = "exec" /\ call[c].toexec = {}
  /\ IF call[c].txexecerr
       THEN \E ok \in BOOLEAN :
              call' = [call EXCEPT
                         ![c].txcalls = Append(@, "Rollback"),
                         ![c].tx = "rolledback",
                         ![c].txrows = <<>>,
                         ![c].pc = IF ok THEN "commit" ELSE "returned"]
       ELSE call' = [call EXCEPT ![c].pc = "commit"]
  /\ UNCHANGED <<table, retrVars, schedVars, codecVars>>

\* tx.Commit(), also reached after a rollback: a finished transaction
\* answers ErrTxDone; otherwise the pending rows are stored, or the commit
\* fails and nothing is stored.
AddCommit(c) ==
  /\ call[c].pc = "commit"
  /\ IF call[c].tx # "open"
       THEN /\ call' = [call EXCEPT ![c].txcalls = Append(@, "Commit"),
                                     ![c].pc = "returned"]
            /\ UNCHANGED table
       ELSE \E ok \in BOOLEAN :
              /\ call' = [call EXCEPT
                            ![c].txcalls = Append(@, "Commit"),
                            ![c].tx = IF ok THEN "committed" ELSE "failed",
                            ![c].txrows = <<>>,
                            ![c].stored = IF ok THEN call[c].txrows ELSE <<>>,
                            ![c].pc = "returned"]
              /\ table' = IF ok THEN table \o call[c].txrows ELSE table
  /\ UNCHANGED <<retrVars, schedVars, codecVars>>

(***************************************************************************)
(* buildServerList                                                         *)
(***************************************************************************)

\* The chain of assignments to `success`, in the order of the code.
Success(flt, iok, pok, rok) ==
  LET s0 == iok /\ rok /\ pok
      s1 == IF flt.HasIgnoreInfo THEN pok /\ rok ELSE s0
      s2 == IF flt.HasIgnorePlayers THEN iok /\ rok ELSE s1
      s3 == IF flt.HasIgnoreRules THEN iok /\ pok ELSE s2
      s4 == IF flt.HasIgnoreInfo /\ flt.HasIgnorePlayers THEN rok ELSE s3
      s5 == IF flt.HasIgnoreInfo /\ flt.HasIgnoreRules THEN pok ELSE s4
  IN  IF flt.HasIgnorePlayers /\ flt.HasIgnoreRules THEN iok ELSE s5

\* net.SplitHostPort: the ip and the port of an address, and an error for
\* what is not an ip:port pair (no HostAddress of the model is).
SplitHostPort(host) ==
  IF Len(host) = 2
    THEN [ip |-> host[1], port |-> host[2], err |-> FALSE]
    ELSE [ip |-> 0, port |-> 0, err |-> TRUE]

\* `if info.ExtraData.Port != 0`: the address with the game port, else host.
ServerHost(host, info) ==
  IF info.Port # 0 THEN <<SplitHostPort(host).ip, info.Port>> ELSE host

\* The server value before buildServerList has filled it in.
NoSrv ==
  [ID |-> 0, Host |-> <<>>, IP |-> 0, Port |-> 0, CountryInfo |-> "nil",
   Info |-> "nil", Players |-> "nil", Rules |-> "nil"]

\* What db.GetCountryInfo can send on loc: the country of the ip, or none.
CountryAnswers == {"Country", "absent"}

\* Variant: a host that is not successful is not appended to FailedServers.
AssembleHost_DropsFailed(flt, host, imap, rmap, pmap, list, dbh) ==
  LET iok == host \in DOMAIN imap
      pok == host \in DOMAIN pmap
      rok == host \in DOMAIN rmap
  IN  IF ~Success(flt, iok, pok, rok)
        THEN [panic |-> FALSE, lookup |-> FALSE, srv |-> NoSrv,
              sl |-> list, dbhosts |-> dbh]
        ELSE IF ~iok
          THEN [panic |-> TRUE, lookup |-> FALSE, srv |-> NoSrv,
                sl |-> list, dbhosts |-> dbh]
          ELSE [panic |-> FALSE, lookup |-> TRUE,
                srv |-> [NoSrv EXCEPT
                           !.Host = ServerHost(host, imap[host]),
                           !.IP = SplitHostPort(host).ip,
                           !.Port = SplitHostPort(host).port,
                           !.Info = "ServerInfo",
                           !.Players = "data",
                           !.Rules = "data"],
                sl |-> list, dbhosts |-> dbh]

\* One iteration of the loop over servers, up to `go db.GetCountryInfo`.
\* info is the nil pointer when the host is not a key of infomap, and
\* reading info.ExtraData then panics. A host without success is appended
\* to FailedServers and the iteration is over (lookup is FALSE); for a
\* successful host srv is filled in, its address with the game port is
\* appended to dbhosts, and the country lookup is started. A successful
\* host whose address does not split is appended with neither.
AssembleHost(flt, host, imap, rmap, pmap, list, dbh) ==
  LET iok == host \in DOMAIN imap
      pok == host \in DOMAIN pmap
      rok == host \in DOMAIN rmap
      players == IF pok THEN pmap[host] ELSE "empty"
      rules == IF flt.HasIgnoreRules THEN "empty"
               ELSE IF rok THEN rmap[host] ELSE "nil"
      useEmptyInfo == flt.HasIgnoreInfo
  IN  IF ~Success(flt, iok, pok, rok)
        THEN [panic |-> FALSE, lookup |-> FALSE, srv |-> NoSrv,
              sl |-> [list EXCEPT !.FailedServers = Append(@, host)],
              dbhosts |-> dbh]
        ELSE LET s0 == [NoSrv EXCEPT
                          !.Info = IF useEmptyInfo THEN "EmptyPlaceholder"
                                   ELSE "ServerInfo",
                          !.Players = players,
                          !.Rules = rules]
             IN  IF SplitHostPort(host).err
                   THEN [panic |-> FALSE, lookup |-> FALSE, srv |-> NoSrv,
                         sl |-> [list EXCEPT !.Servers = Append(@, s0)],
                         dbhosts |-> dbh]
                   ELSE IF ~iok
                     THEN [panic |-> TRUE, lookup |-> FALSE, srv |-> NoSrv,
                           sl |-> list, dbhosts |-> dbh]
                     ELSE LET s == [s0 EXCEPT
                                      !.Host = ServerHost(host, imap[host]),
                                      !.IP = SplitHostPort(host).ip,
                                      !.Port = SplitHostPort(host).port]
                          IN  [panic |-> FALSE, lookup |-> TRUE, srv |-> s,
                               sl |-> list,
                               dbhosts |-> IF imap[host].Port # 0
                                             THEN Append(dbh, s.Host)
                                             ELSE dbh]

\* The counts set after the loop.
SetCounts(list) ==
  [list EXCEPT !.ServerCount = Len(list.Servers),
               !.FailedCount = Len(list.FailedServers)]

\* retrieve calls buildServerList: its own all-three check, then the two
\* databases are opened; an error of either is returned by retrieve.
BuildStart ==
  /\ pc = "build"
  /\ IF AllIgnored(filter)
       THEN pc' = "done" /\ result' = "ConfigError" /\ UNCHANGED buildVars
       ELSE \E opened \in BOOLEAN :
              IF opened
                THEN /\ pc' = "loop"
                     /\ bi' = 1
                     /\ sl' = EmptyList
                     /\ dbhosts' = <<>>
                     /\ UNCHANGED <<result, srv, loc, idpc, idtodo, idres>>
                ELSE /\ pc' = "done"
                     /\ result' = "BuildError"
                     /\ UNCHANGED buildVars
  /\ UNCHANGED <<filter, master, net, servers, masterQueried,
                 hostQueried, kindsQueried, attempts,
                 playermap, rulemap, infomap>>
  /\ UNCHANGED <<batchVars, schedVars, auxVars>>

\* The loop body for servers[bi] up to the start of the country lookup: a
\* host without success ends its iteration here, a successful one leaves
\* buildServerList blocked on `<-loc` with srv not yet in sl.Servers.
BuildHost ==
  /\ pc = "loop"
  /\ loc = "none"
  /\ bi <= Len(servers)
  /\ LET out == AssembleHost(filter, servers[bi], infomap, rulemap, playermap,
                             sl, dbhosts)
     IN  IF out.panic
           THEN pc' = "panic" /\ UNCHANGED buildVars
           ELSE /\ sl' = out.sl
                /\ dbhosts' = out.dbhosts
                /\ srv' = out.srv
                /\ loc' = IF out.lookup THEN "empty" ELSE "none"
                /\ bi' = IF out.lookup THEN bi ELSE bi + 1
                /\ UNCHANGED <<pc, idpc, idtodo, idres>>
  /\ UNCHANGED <<filter, master, net, result, servers, masterQueried,
                 hostQueried, kindsQueried, attempts,
                 playermap, rulemap, infomap>>
  /\ UNCHANGED <<batchVars, schedVars, auxVars>>

\* The db.GetCountryInfo goroutine sends its answer on loc (capacity 1).
GetCountryInfo ==
  /\ loc = "empty"
  /\ \E c \in CountryAnswers : loc' = c
  /\ UNCHANGED <<filter, master, net, pc, result, servers, masterQueried,
                 hostQueried, kindsQueried, attempts,
                 playermap, rulemap, infomap,
                 bi, sl, dbhosts, srv, idpc, idtodo, idres>>
  /\ UNCHANGED <<batchVars, schedVars, auxVars>>

\* The rest of the loop body: `srv.CountryInfo = <-loc` receives the answer
\* and srv is appended to sl.Servers.
BuildAppend ==
  /\ pc = "loop"
  /\ loc \in CountryAnswers
  /\ sl' = [sl EXCEPT !.Servers = Append(@, [srv EXCEPT !.CountryInfo = loc])]
  /\ srv' = NoSrv
  /\ loc' = "none"
  /\ bi' = bi + 1
  /\ UNCHANGED <<filter, master, net, pc, result, servers, masterQueried,
                 hostQueried, kindsQueried, attempts,
                 playermap, rulemap, infomap, dbhosts, idpc, idtodo, idres>>
  /\ UNCHANGED <<batchVars, schedVars, auxVars>>

\* setServerIDForList: `toSet`, the Host of every entry of sl.Servers.
ToSet(list) == {list.Servers[i].Host : i \in DOMAIN list.Servers}

\* setServerIDForList: `if m[s.Host] != 0 { s.ID = m[s.Host] }`; ids is the
\* set of hosts the map gives a non-zero ID, 1 stands for that ID.
SetIDs(list, ids) ==
  [list EXCEPT !.Servers =
     [i \in DOMAIN list.Servers |->
        IF list.Servers[i].Host \in ids
          THEN [list.Servers[i] EXCEPT !.ID = 1]
          ELSE list.Servers[i]]]

\* After the loop: `go db.AddServersToDB(sdb, dbhosts)` enters the call
\* with the hosts of dbhosts and is not waited for, the counts are set, and
\* setServerIDForList starts the GetIDsForServerList goroutine with toSet
\* and waits on the result channel.
BuildFinish ==
  /\ pc = "loop"
  /\ bi > Len(servers)
  /\ call' = [call EXCEPT ![1] = StartedCall(HostsGames(Range(dbhosts)))]
  /\ sl' = SetCounts(sl)
  /\ idpc' = "running"
  /\ idtodo' = ToSet(sl)
  /\ idres' = {}
  /\ pc' = "idwait"
  /\ UNCHANGED <<filter, master, net, result, servers, masterQueried,
                 hostQueried, kindsQueried, attempts,
                 playermap, rulemap, infomap, bi, dbhosts, srv, loc>>
  /\ UNCHANGED <<batchVars, schedVars, codecVars, table>>

\* The GetIDsForServerList goroutine: one SELECT per host of its map, which
\* reads the rows committed so far. A query or scan error makes it return
\* without sending on result (its map is gone with it); after the last
\* host it sends the map.
GetIDsForServerList ==
  /\ idpc = "running"
  /\ IF idtodo = {}
       THEN idpc' = "sent" /\ UNCHANGED <<idtodo, idres>>
       ELSE \E h \in idtodo, qerr \in BOOLEAN :
              IF qerr
                THEN idpc' = "aborted" /\ idtodo' = {} /\ idres' = {}
                ELSE /\ idtodo' = idtodo \ {h}
                     /\ idres' = IF ServerExists(table, h, ListGame)
                                   THEN idres \cup {h} ELSE idres
                     /\ UNCHANGED idpc
  /\ UNCHANGED <<filter, master, net, pc, result, servers, masterQueried,
                 hostQueried, kindsQueried, attempts,
                 playermap, rulemap, infomap, bi, sl, dbhosts, srv, loc>>
  /\ UNCHANGED <<batchVars, schedVars, auxVars>>

\* setServerIDForList receives the map, sets the IDs and returns the list,
\* which buildServerList returns to retrieve.
SetServerIDForList ==
  /\ pc = "idwait"
  /\ idpc = "sent"
  /\ idpc' = "done"
  /\ sl' = SetIDs(sl, idres)
  /\ pc' = "write"
  /\ UNCHANGED <<filter, master, net, result, servers, masterQueried,
                 hostQueried, kindsQueried, attempts,
                 playermap, rulemap, infomap, bi, dbhosts, srv, loc,
                 idtodo, idres>>
  /\ UNCHANGED <<batchVars, schedVars, auxVars>>

\* retrieve marshals the list and writes servers.json; either can fail.
WriteSnapshot ==
  /\ pc = "write"
  /\ pc' = "done"
  /\ \E written \in BOOLEAN : result' = IF written THEN "nil" ELSE "WriteError"
  /\ UNCHANGED <<filter, master, net, servers, masterQueried,
                 hostQueried, kindsQueried, attempts,
                 playermap, rulemap, infomap>>
  /\ UNCHANGED <<batchVars, buildVars, schedVars, auxVars>>

(***************************************************************************)
(* parseServerInfo, the decoder of an A2S_INFO reply                       *)
(***************************************************************************)

\* The packet of TestParseServerInfo.
TestPacket == <<
  \hFF, \hFF, \hFF, \hFF, \h49, \h11, \h71, \h6C, \h2E, \h73, \h79, \h6E,
  \h63, \h6F, \h72, \h65, \h2E, \h6F, \h72, \h67, \h20, \h2D, \h20, \h55,
  \h53, \h20, \h43, \h45, \h4E, \h54, \h52, \h41, \h4C, \h20, \h23, \h31,
  \h00, \h74, \h68, \h75, \h6E, \h64, \h65, \h72, \h73, \h74, \h72, \h75,
  \h63, \h6B, \h00, \h62, \h61, \h73, \h65, \h71, \h33, \h00, \h43, \h6C,
  \h61, \h6E, \h20, \h41, \h72, \h65, \h6E, \h61, \h00, \h00, \h00, \h02,
  \h10, \h00, \h64, \h6C, \h00, \h01, \h31, \h30, \h36, \h33, \h00, \hB1,
  \h38, \h6D, \h02, \hF8, \hC1, \h4D, \h7B, \h17, \h40, \h01, \h63, \h6C,
  \h61, \h6E, \h61, \h72, \h65, \h6E, \h61, \h2C, \h73, \h79, \h6E, \h63,
  \h6F, \h72, \h65, \h2C, \h74, \h65, \h78, \h61, \h73, \h00, \h48, \h4F,
  \h04, \h00, \h00, \h00, \h00, \h00, \h00, \h00, \h00, \h00, \h00, \h00,
  \h00, \h00, \h00, \h00, \h00, \h00, \h00, \h00, \h00, \h00, \h00, \h00,
  \h00, \h00, \h00, \h00, \h00, \h00, \h00, \h00, \h00, \h00, \h00, \h00>>

\* The printable ASCII characters from the space (32) to the underscore
\* (95) and from a (97) to the tilde (126).
AsciiLow == <<
  " ", "!", "\"", "#", "$", "%", "&", "'", "(", ")", "*", "+",
  ",", "-", ".", "/", "0", "1", "2", "3", "4", "5", "6", "7",
  "8", "9", ":", ";", "<", "=", ">", "?", "@", "A", "B", "C",
  "D", "E", "F", "G", "H", "I", "J", "K", "L", "M", "N", "O",
  "P", "Q", "R", "S", "T", "U", "V", "W", "X", "Y", "Z", "[",
  "\\", "]", "^", "_">>
AsciiHigh == <<
  "a", "b", "c", "d", "e", "f", "g", "h", "i", "j", "k", "l",
  "m", "n", "o", "p", "q", "r", "s", "t", "u", "v", "w", "x",
  "y", "z", "{", "|", "}", "~">>

\* string(bytes): the text a run of bytes stands for; a byte that is not
\* one of these characters is shown as a question mark.
Chr(b) ==
  IF b \in 32..95 THEN AsciiLow[b - 31]
  ELSE IF b \in 97..126 THEN AsciiHigh[b - 96] ELSE "?"
RECURSIVE BytesToString(_)
BytesToString(bs) ==
  IF bs = <<>> THEN "" ELSE Chr(Head(bs)) \o BytesToString(Tail(bs))

\* Reads of the decoder at index pos of the packet.
CanRead(bytes, pos, n) == pos >= 1 /\ pos + n - 1 <= Len(bytes)
ReadShort(bytes, pos) == bytes[pos] + 256 * bytes[pos + 1]
\* Index of the zero byte that ends the string starting at pos, 0 if none.
StringEnd(bytes, pos) ==
  LET zs == {i \in pos..Len(bytes) : bytes[i] = 0}
  IN  IF zs = {} THEN 0 ELSE CHOOSE i \in zs : \A j \in zs : i <= j

\* The fields of the reply in protocol order: the fixed ones, the flag byte
\* (EDF), then the extra fields it selects.
FieldOrder ==
  <<"Header", "Protocol", "Name", "Map", "Folder", "Game", "ID", "Players",
    "MaxPlayers", "Bots", "ServerType", "Environment", "Visibility", "VAC",
    "Version", "EDF", "Port", "SteamID", "SourceTVPort", "SourceTVName",
    "Keywords", "GameID">>

ExtraFields == {FieldOrder[i] : i \in 17..Len(FieldOrder)}

\* How a field is encoded.
FieldKind(field) ==
  CASE field = "Header" -> "header"
    [] field = "EDF" -> "flags"
    [] field \in {"Name", "Map", "Folder", "Game", "Version",
                  "SourceTVName", "Keywords"} -> "string"
    [] field \in {"ID", "Port", "SourceTVPort"} -> "short"
    [] field \in {"SteamID", "GameID"} -> "long"
    [] OTHER -> "byte"

\* The bit of the flag byte that selects an extra field.
ExtraBit(field) ==
  CASE field = "Port" -> \h80
    [] field = "SteamID" -> \h10
    [] field \in {"SourceTVPort", "SourceTVName"} -> \h40
    [] field = "Keywords" -> \h20
    [] field = "GameID" -> \h01

\* Variant: every extra field is read whatever the flag byte says.
HasFlag_Always(edf, bit) == edf >= 0 /\ bit >= 1

\* `edf & bit != 0`.
HasFlag(edf, bit) == (edf \div bit) % 2 = 1

\* The name of the OS indicator byte.
EnvironmentName(b) ==
  CASE b = \h6C -> "Linux"
    [] b = \h77 -> "Windows"
    [] b \in {\h6D, \h6F} -> "Mac"
    [] OTHER -> "Unknown"

\* The value a byte field is stored as.
ByteValue(field, b) ==
  IF field = "Environment" THEN EnvironmentName(b) ELSE b

\* One field of the reply read at index pos: the error, the index after the
\* field and the ServerInfo with the field stored. An extra field whose bit
\* is not set in the flag byte is not read and stays absent; a reply that
\* ends before the flag byte has no extra field.
ReadField(field, bytes, pos, info) ==
  LET kind == FieldKind(field)
      ok(p, v) == [err |-> "none", pos |-> p, info |-> Put(info, field, v)]
      bad(e) == [err |-> e, pos |-> pos, info |-> EmptyMap]
  IN  IF field \in ExtraFields /\ ~HasFlag(info["EDF"], ExtraBit(field))
        THEN [err |-> "none", pos |-> pos, info |-> info]
        ELSE CASE kind = "header" ->
                    IF /\ CanRead(bytes, pos, 5)
                       /\ SubSeq(bytes, pos, pos + 3) =
                            <<\hFF, \hFF, \hFF, \hFF>>
                       /\ bytes[pos + 4] = \h49
                      THEN [err |-> "none", pos |-> pos + 5, info |-> info]
                      ELSE bad("ErrNoInfo")
               [] kind = "flags" ->
                    IF CanRead(bytes, pos, 1)
                      THEN ok(pos + 1, bytes[pos])
                      ELSE ok(pos, 0)
               [] kind = "byte" ->
                    IF CanRead(bytes, pos, 1)
                      THEN ok(pos + 1, ByteValue(field, bytes[pos]))
                      ELSE bad("MalformedPacket")
               [] kind = "short" ->
                    IF CanRead(bytes, pos, 2)
                      THEN ok(pos + 2, ReadShort(bytes, pos))
                      ELSE bad("MalformedPacket")
               [] kind = "long" ->
                    IF CanRead(bytes, pos, 8)
                      THEN ok(pos + 8, SubSeq(bytes, pos, pos + 7))
                      ELSE bad("MalformedPacket")
               [] kind = "string" ->
                    LET e == StringEnd(bytes, pos)
                    IN  IF e # 0
                          THEN ok(e + 1,
                                  BytesToString(SubSeq(bytes, pos, e - 1)))
                          ELSE bad("MalformedPacket")

\* parseServerInfo reads the next field; it returns at the first error.
ParseField ==
  /\ pfield \in 1..Len(FieldOrder)
  /\ perr = "none"
  /\ LET r == ReadField(FieldOrder[pfield], pkt, ppos, sinfo)
     IN  /\ perr' = r.err
         /\ ppos' = r.pos
         /\ sinfo' = r.info
         /\ pfield' = IF r.err = "none" THEN pfield + 1 ELSE pfield
  /\ UNCHANGED <<pkt, retrVars, schedVars, dbVars>>

\* parseServerInfo is not running.
CodecIdle ==
  /\ pkt = <<>>
  /\ ppos = 0
  /\ pfield = 0
  /\ sinfo = EmptyMap
  /\ perr = "none"

(***************************************************************************)
(* Specification of one retrieve call                                      *)
(***************************************************************************)

MasterAnswers ==
  {[err |-> TRUE, Servers |-> <<>>]} \cup
  {[err |-> FALSE, Servers |-> s] : s \in HostSeqs}

SchedIdle ==
  /\ runpc = "off"
  /\ stopbuf = 0
  /\ tick = 0
  /\ ticking = FALSE
  /\ batch = <<>>
  /\ stopDelivered = FALSE
  /\ exited = FALSE

RetrieveInit ==
  /\ pc = "start"
  /\ result = "none"
  /\ servers = <<>>
  /\ masterQueried = FALSE
  /\ hostQueried = FALSE
  /\ kindsQueried = {}
  /\ attempts = NoAttempts
  /\ bpc = "idle"
  /\ wg = 0
  /\ wpc = NoWorkers
  /\ wres = NoResults
  /\ m = EmptyMap
  /\ failed = {}
  /\ round = 0
  /\ f = {}
  /\ retried = EmptyMap
  /\ playermap = EmptyMap
  /\ rulemap = EmptyMap
  /\ infomap = EmptyMap
  /\ bi = 0
  /\ sl = EmptyList
  /\ dbhosts = <<>>
  /\ srv = NoSrv
  /\ loc = "none"
  /\ idpc = "none"
  /\ idtodo = {}
  /\ idres = {}

Init ==
  /\ filter \in Filters
  /\ master = MasterAnswers
  /\ net = [h \in HostAddrs |-> [k \in Kinds |-> Events]]
  /\ RetrieveInit
  /\ SchedIdle
  /\ CodecIdle
  /\ DBIdle

Next ==
  \/ MasterQuery
  \/ CheckIgnore
  \/ SkipKind
  \/ BatchLaunch
  \/ \E h \in HostAddrs : WorkerQuery(h)
  \/ \E h \in HostAddrs : WorkerRecord(h)
  \/ \E h \in HostAddrs : WorkerDone(h)
  \/ BatchWaitDone
  \/ RetryRound
  \/ \E h \in HostAddrs : RetryRecord(h)
  \/ RetryWaitDone
  \/ BatchMerge
  \/ BatchReturn
  \/ BuildStart
  \/ BuildHost
  \/ GetCountryInfo
  \/ BuildAppend
  \/ BuildFinish
  \/ \E c \in 1..MaxCalls : AddCheck(c)
  \/ \E c \in 1..MaxCalls : AddBegin(c)
  \/ \E c \in 1..MaxCalls : AddExec(c)
  \/ \E c \in 1..MaxCalls : AddRollback(c)
  \/ \E c \in 1..MaxCalls : AddCommit(c)
  \/ GetIDsForServerList
  \/ SetServerIDForList
  \/ WriteSnapshot

Spec == Init /\ [][Next]_vars

\* Every goroutine that can run does run, and every single-host query
\* returns: the steps of a batch and of its workers are taken once they
\* stay possible.
BatchFairness ==
  /\ \A h \in HostAddrs :
       /\ WF_vars(WorkerQuery(h))
       /\ WF_vars(WorkerRecord(h))
       /\ WF_vars(WorkerDone(h))
       /\ WF_vars(RetryRecord(h))
  /\ WF_vars(BatchWaitDone)
  /\ WF_vars(RetryRound)
  /\ WF_vars(RetryWaitDone)
  /\ WF_vars(BatchMerge)
  /\ WF_vars(BatchReturn)

\* One retrieve call that runs a single batch: its filter ignores two of
\* the three kinds.
OneKindInit ==
  /\ Init
  /\ Cardinality({k \in Kinds : Ignored(filter, k)}) = 2

FairSpec == OneKindInit /\ [][Next]_vars /\ BatchFairness

(***************************************************************************)
(* Scenario: hosts A, B, C; A answers every kind, B times out on rules     *)
(* only, C times out on everything; default filter.                        *)
(***************************************************************************)

ScenarioNet ==
  [h \in HostAddrs |-> [k \in Kinds |->
     IF h = HostA THEN {"reply"}
     ELSE IF h = HostB THEN (IF k = "rules" THEN {"timeout"} ELSE {"reply"})
     ELSE {"timeout"}]]

ScenarioInit ==
  /\ filter = DefaultFilter
  /\ master = {[err |-> FALSE, Servers |-> <<HostA, HostB, HostC>>]}
  /\ net = ScenarioNet
  /\ RetrieveInit
  /\ SchedIdle
  /\ CodecIdle
  /\ DBIdle

ScenarioNext ==
  \/ MasterQuery
  \/ CheckIgnore
  \/ BatchLaunch
  \/ \E h \in HostAddrs : WorkerQuery(h)
  \/ \E h \in HostAddrs : WorkerRecord(h)
  \/ \E h \in HostAddrs : WorkerDone(h)
  \/ BatchWaitDone
  \/ RetryRound
  \/ \E h \in HostAddrs : RetryRecord(h)
  \/ RetryWaitDone
  \/ BatchMerge
  \/ BatchReturn
  \/ BuildStart
  \/ BuildHost
  \/ GetCountryInfo
  \/ BuildAppend
  \/ BuildFinish
  \/ \E c \in 1..MaxCalls : AddCheck(c)
  \/ \E c \in 1..MaxCalls : AddBegin(c)
  \/ \E c \in 1..MaxCalls : AddExec(c)
  \/ \E c \in 1..MaxCalls : AddRollback(c)
  \/ \E c \in 1..MaxCalls : AddCommit(c)
  \/ GetIDsForServerList
  \/ SetServerIDForList
  \/ WriteSnapshot

ScenarioSpec == ScenarioInit /\ [][ScenarioNext]_vars

(***************************************************************************)
(* Run, the scheduler. batch[i] is the i-th retrieve call Run has made     *)
(* (one call is what Spec above describes): "running" until it returns.    *)
(***************************************************************************)

\* Most retrieve calls Run makes in the model.
MaxBatches == 4

\* retrticker delivers a tick; its channel holds one, a further one is lost.
Tick ==
  /\ ~exited
  /\ ticking
  /\ tick = 0
  /\ tick' = 1
  /\ UNCHANGED <<runpc, stopbuf, ticking, batch, stopDelivered, exited>>
  /\ UNCHANGED <<retrVars, auxVars>>

\* Some goroutine sends on the stop channel, which buffers one signal.
StopSend ==
  /\ ~exited
  /\ stopbuf = 0
  /\ stopbuf' = 1
  /\ stopDelivered' = TRUE
  /\ UNCHANGED <<runpc, tick, ticking, batch, exited>>
  /\ UNCHANGED <<retrVars, auxVars>>

\* `<-firstretrieval.C` returns and Run calls retrieve itself.
FirstRetrieval ==
  /\ ~exited
  /\ runpc = "delay"
  /\ runpc' = "first"
  /\ batch' = Append(batch, "running")
  /\ UNCHANGED <<stopbuf, tick, ticking, stopDelivered, exited>>
  /\ UNCHANGED <<retrVars, auxVars>>

\* A retrieve call returns; Run was waiting for the first one.
RetrieveReturns(i) ==
  /\ ~exited
  /\ i \in DOMAIN batch
  /\ batch[i] = "running"
  /\ batch' = [batch EXCEPT ![i] = "done"]
  /\ runpc' = IF i = 1 /\ runpc = "first" THEN "select" ELSE runpc
  /\ UNCHANGED <<stopbuf, tick, ticking, stopDelivered, exited>>
  /\ UNCHANGED <<retrVars, auxVars>>

\* `case <-retrticker.C`: a goroutine is started that calls retrieve.
SelectTick ==
  /\ ~exited
  /\ runpc = "select"
  /\ tick = 1
  /\ Len(batch) < MaxBatches
  /\ tick' = 0
  /\ batch' = Append(batch, "running")
  /\ UNCHANGED <<runpc, stopbuf, ticking, stopDelivered, exited>>
  /\ UNCHANGED <<retrVars, auxVars>>

\* `case <-stop`: the ticker is stopped and Run returns.
SelectStop ==
  /\ ~exited
  /\ runpc = "select"
  /\ stopbuf = 1
  /\ stopbuf' = 0
  /\ ticking' = FALSE
  /\ runpc' = "returned"
  /\ UNCHANGED <<tick, batch, stopDelivered, exited>>
  /\ UNCHANGED <<retrVars, auxVars>>

\* main's own `<-stop` takes the signal: main returns and the process ends.
MainExit ==
  /\ ~exited
  /\ stopbuf = 1
  /\ stopbuf' = 0
  /\ exited' = TRUE
  /\ UNCHANGED <<runpc, tick, ticking, batch, stopDelivered>>
  /\ UNCHANGED <<retrVars, auxVars>>

SchedInit ==
  /\ filter = DefaultFilter
  /\ master = MasterAnswers
  /\ net = [h \in HostAddrs |-> [k \in Kinds |-> Events]]
  /\ RetrieveInit
  /\ runpc = "delay"
  /\ stopbuf = 0
  /\ tick = 0
  /\ ticking = TRUE
  /\ batch = <<>>
  /\ stopDelivered = FALSE
  /\ exited = FALSE
  /\ CodecIdle
  /\ DBIdle

SchedNext ==
  \/ Tick
  \/ StopSend
  \/ FirstRetrieval
  \/ \E i \in 1..MaxBatches : RetrieveReturns(i)
  \/ SelectTick
  \/ SelectStop
  \/ MainExit

SchedSpec == SchedInit /\ [][SchedNext]_vars

(***************************************************************************)
(* Specification of parseServerInfo: one call on one packet                *)
(***************************************************************************)

\* Where the flag byte of the test packet is.
FlagIndex == CHOOSE i \in DOMAIN TestPacket : TestPacket[i] = \hB1

\* Every combination of the bits that select extra fields.
FlagBytes ==
  {a + b + c + d + e : a \in {0, \h80}, b \in {0, \h40}, c \in {0, \h20},
                       d \in {0, \h10}, e \in {0, \h01}}

\* The packets decoded: the test packet, the test packet under every flag
\* byte, every prefix of it, and a reply of another type.
Packets ==
  {[TestPacket EXCEPT ![FlagIndex] = fl] : fl \in FlagBytes}
    \cup {SubSeq(TestPacket, 1, n) : n \in 0..Len(TestPacket)}
    \cup {[TestPacket EXCEPT ![5] = \h41]}

\* retrieve is not running.
RetrieveIdle ==
  /\ filter = DefaultFilter
  /\ master = MasterAnswers
  /\ net = [h \in HostAddrs |-> [k \in Kinds |-> Events]]
  /\ RetrieveInit

ParseInit ==
  /\ pkt \in Packets
  /\ ppos = 1
  /\ pfield = 1
  /\ sinfo = EmptyMap
  /\ perr = "none"
  /\ RetrieveIdle
  /\ SchedIdle
  /\ DBIdle

ParseNext == ParseField

ParseSpec == ParseInit /\ [][ParseNext]_vars

(***************************************************************************)
(* Specification of the servers table under AddServersToDB calls           *)
(***************************************************************************)

DBInit ==
  /\ DBIdle
  /\ RetrieveIdle
  /\ SchedIdle
  /\ CodecIdle

DBNext ==
  \E c \in 1..MaxCalls :
    \/ AddStart(c)
    \/ AddCheck(c)
    \/ AddBegin(c)
    \/ AddExec(c)
    \/ AddRollback(c)
    \/ AddCommit(c)

DBSpec == DBInit /\ [][DBNext]_vars

(***************************************************************************)
(* Properties                                                              *)
(***************************************************************************)

InMap(h) == h \in DOMAIN m
InFailed(h) == h \in failed

\* The worker of host h has recorded its result in the first round; wres[h]
\* still holds what its query returned.
Recorded(h) == bpc = "wait" /\ wpc[h] \in {"recorded", "done"}

NoDataOf(kind) == IF kind = "players" THEN "ErrNoPlayers"
                  ELSE IF kind = "rules" THEN "ErrNoRules" ELSE "never"

\* C1: a first-round worker whose query ended with ErrNoPlayers (players
\* batch) or ErrNoRules (rules batch) has put its host in the success map
\* and not in failed; a worker whose query ended with any other error has
\* put its host in failed and not in the success map.
C1_NoDataNeverRetried ==
  \A h \in HostAddrs : Recorded(h) =>
    /\ wres[h].err = NoDataOf(pc) => (InMap(h) /\ ~InFailed(h))
    /\ (wres[h].err # "nil" /\ wres[h].err # NoDataOf(pc)) =>
         (InFailed(h) /\ ~InMap(h))

\* C1 witness: in a players batch the worker of one host ended with
\* ErrNoPlayers and its host is in the map, the worker of another ended
\* with a malformed packet and its host is in failed.
C1_Witness ==
  /\ pc = "players"
  /\ bpc = "wait"
  /\ \E h1, h2 \in Range(servers) :
       /\ wpc[h1] = "done" /\ wres[h1].err = "ErrNoPlayers" /\ InMap(h1)
       /\ wpc[h2] = "done" /\ wres[h2].err = "MalformedPacket" /\ InFailed(h2)

BatchRunning == bpc \in {"wait", "retry", "retrywait", "merged"}

\* C2 as stated: from the launch of the workers until the batch returns,
\* every host of the batch is in exactly one of the success map and failed.
C2_ExactlyOneAlways ==
  BatchRunning => \A h \in Range(servers) : InMap(h) # InFailed(h)

\* C2 amended: from the launch until the retried map is merged, a host
\* whose worker has not yet recorded its outcome under the mutex is in
\* neither the success map nor failed, and a host whose worker has recorded
\* it (wg.Done called or not) is in exactly one of them (so every host is,
\* once wg.Wait has returned).
C2_ExactlyOneOnceRecorded ==
  bpc \in {"wait", "retry", "retrywait"} =>
    \A h \in Range(servers) :
      IF bpc = "wait" /\ ~Recorded(h)
        THEN ~InMap(h) /\ ~InFailed(h)
        ELSE InMap(h) # InFailed(h)

\* C2 witness: two workers have recorded (one in the map, one in failed) and
\* neither has called wg.Done yet.
C2_Witness ==
  /\ bpc = "wait"
  /\ wg = Len(servers)
  /\ \E h1, h2 \in Range(servers) :
       /\ wpc[h1] = "recorded" /\ InMap(h1)
       /\ wpc[h2] = "recorded" /\ InFailed(h2)

KindMap(kind) ==
  CASE kind = "info" -> infomap
    [] kind = "players" -> playermap
    [] kind = "rules" -> rulemap

\* Every kind the filter does not skip is present for host h.
NonSkippedPresent(h) ==
  \A k \in Kinds : ~Ignored(filter, k) => h \in DOMAIN KindMap(k)

\* The loop of buildServerList has dealt with servers[i] (a panic ends it).
Handled(i) ==
  /\ pc \in {"loop", "panic", "write", "done"}
  /\ i < bi \/ (pc = "panic" /\ i = bi)

\* The entries of Servers made for host h (IP and Port keep the query address).
ServerEntries(h) ==
  {j \in DOMAIN sl.Servers :
     sl.Servers[j].IP = h[1] /\ sl.Servers[j].Port = h[2]}

InFailedServers(h) == h \in Range(sl.FailedServers)

\* C3: a host the loop has dealt with is in Servers iff every non-skipped
\* kind is present for it, and is in FailedServers otherwise.
C3_SuccessIffPresent ==
  ~AllIgnored(filter) =>
    \A i \in DOMAIN servers : Handled(i) =>
      IF NonSkippedPresent(servers[i])
        THEN ServerEntries(servers[i]) # {} /\ ~InFailedServers(servers[i])
        ELSE ServerEntries(servers[i]) = {} /\ InFailedServers(servers[i])

\* C4: with HasIgnoreInfo set and another kind kept, assembly does not
\* panic and every host whose kept kinds are present is in Servers with
\* the empty placeholder as its info.
C4_IgnoreInfoPlaceholder ==
  (filter.HasIgnoreInfo /\ ~AllIgnored(filter)) =>
    /\ pc # "panic"
    /\ \A i \in DOMAIN servers :
         (Handled(i) /\ NonSkippedPresent(servers[i])) =>
         /\ ServerEntries(servers[i]) # {}
         /\ \A j \in ServerEntries(servers[i]) :
              sl.Servers[j].Info = "EmptyPlaceholder"

\* C5: retrieve called with all three ignore flags returns the
\* configuration error and has sent no single-host query.
C5_AllIgnoredRejected ==
  (AllIgnored(filter) /\ pc = "done") =>
    (result = "ConfigError" /\ ~hostQueried)

\* C6: with all three ignore flags set, retrieve performs no network
\* operation at all, the master query included.
C6_RejectedBeforeNetwork ==
  AllIgnored(filter) => (~masterQueried /\ ~hostQueried)

\* buildServerList has returned a list to retrieve.
ListReturned ==
  pc = "write" \/ (pc = "done" /\ result \in {"nil", "WriteError"})

\* C7: in the scenario the list has exactly one server, A, and exactly the
\* two failed hosts B and C.
C7_ScenarioOutcome ==
  ListReturned =>
    /\ sl.ServerCount = 1
    /\ ServerEntries(HostA) = {1}
    /\ sl.FailedCount = 2
    /\ Range(sl.FailedServers) = {HostB, HostC}

\* C8: when the retry step has run with RetryCount rounds allowed, a host
\* absent from the batch's final map was queried exactly RetryCount + 1
\* times.
C8_AbsentAttemptedAllRounds ==
  bpc = "merged" =>
    \A h \in Range(servers) :
      ~InMap(h) => attempts[h] = RetryCount(pc) + 1

\* C8 witness: an info batch ends with one host absent and another host
\* present that needed a retry.
C8_Witness ==
  /\ bpc = "merged"
  /\ pc = "info"
  /\ \E h1, h2 \in Range(servers) :
       ~InMap(h1) /\ InMap(h2) /\ attempts[h2] = 2

\* The places of the returned list where host h appears: the servers made
\* for it, under its derived address, and its entries in FailedServers.
Appearances(h) ==
  Cardinality({j \in ServerEntries(h) :
                 h \in DOMAIN infomap
                 /\ sl.Servers[j].Host = ServerHost(h, infomap[h])})
  + Cardinality({j \in DOMAIN sl.FailedServers : sl.FailedServers[j] = h})

\* C9: in a returned list every input host appears exactly once, in
\* Servers or in FailedServers, and the two counts add up to the number of
\* input hosts.
C9_NoHostDropped ==
  ListReturned =>
    /\ \A h \in Range(servers) : Appearances(h) = 1
    /\ sl.ServerCount + sl.FailedCount = Len(servers)

\* C9 witness: a returned list with a server under its game-port address
\* and a failed host.
C9_Witness ==
  /\ ListReturned
  /\ sl.FailedCount >= 1
  /\ \E j \in DOMAIN sl.Servers :
       sl.Servers[j].Host # <<sl.Servers[j].IP, sl.Servers[j].Port>>

\* C10: once a stop signal has been delivered on the stop channel, Run
\* starts no further retrieve call, the first one after the initial delay
\* included.
C10_NoBatchAfterStop ==
  [][stopDelivered => Len(batch') = Len(batch)]_vars

(***************************************************************************)
(* The identity and geo collaborators during buildServerList               *)
(***************************************************************************)

\* Collaborator operations in progress: the country lookup buildServerList
\* waits for, the AddServersToDB calls that have not returned, and the
\* GetIDsForServerList goroutine.
CollaboratorOps ==
  (IF loc = "empty" THEN 1 ELSE 0)
  + Cardinality({c \in 1..MaxCalls : call[c].pc \notin {"idle", "returned"}})
  + (IF idpc = "running" THEN 1 ELSE 0)

\* C11: during buildServerList no two collaborator operations (country
\* lookup, AddServersToDB, GetIDsForServerList) are in progress at the same
\* time, and none is started while the workers of a batch are running.
C11_CollaboratorSequential ==
  /\ CollaboratorOps <= 1
  /\ (bpc # "idle" => CollaboratorOps = 0)

\* C12: when the ID lookup hits a query or scan error, setServerIDForList
\* does not stay blocked: the lookup never ends without having answered on
\* the result channel while setServerIDForList waits for it.
C12_LookupErrorStillReturns ==
  ~(pc = "idwait" /\ idpc = "aborted")

(***************************************************************************)
(* Error kinds and the retry set                                           *)
(***************************************************************************)

\* C13 as stated: a host whose first-round query ended with a malformed
\* packet is not placed in the retry set.
C13_MalformedNeverRetried ==
  \A h \in HostAddrs :
    (Recorded(h) /\ wres[h].err = "MalformedPacket") => ~InFailed(h)

\* C13: a host whose first-round query ended with a malformed packet is
\* placed in failed and not in the map, like any failure other than
\* ErrNoPlayers / ErrNoRules, and the first retry round queries every host
\* of failed again.
C13_MalformedRetried ==
  /\ \A h \in HostAddrs :
       (Recorded(h) /\ wres[h].err = "MalformedPacket") =>
         (InFailed(h) /\ ~InMap(h))
  /\ (bpc = "retrywait" /\ round = 1) =>
       \A h \in failed : wpc[h] # "none"

\* C13 witness: in an info batch a worker has recorded a malformed packet
\* and its host is in failed.
C13_Witness ==
  /\ pc = "info"
  /\ \E h \in Range(servers) :
       Recorded(h) /\ wres[h].err = "MalformedPacket" /\ InFailed(h)

\* C14: a first-round query of any kind that timed out (the kind's no-data
\* error) puts its host in the retry set and not in the success map.
C14_NoDataRetried ==
  \A h \in HostAddrs :
    (Recorded(h) /\ wres[h].err = QueryErr(pc, "timeout")) =>
      (InFailed(h) /\ ~InMap(h))

(***************************************************************************)
(* The decoder on the test packet                                          *)
(***************************************************************************)

\* Bit `bit` of byte b is set.
BitSet(b, bit) == (b \div bit) % 2 = 1

\* The fixed fields are read in protocol order, and once all fields are
\* read an extra field is present exactly when its bit of the flag byte is
\* set.
FieldsInOrder ==
  /\ perr = "none" =>
       \A i \in 2..15 : (FieldOrder[i] \in DOMAIN sinfo) <=> (i < pfield)
  /\ (pfield > Len(FieldOrder)) =>
       \A x \in ExtraFields :
         (x \in DOMAIN sinfo) <=> BitSet(sinfo["EDF"], ExtraBit(x))

\* What the test expects of the decoded test packet.
FixtureDecoded ==
  (pkt = TestPacket) =>
    /\ perr = "none"
    /\ (pfield > Len(FieldOrder)) =>
         /\ sinfo["Name"] = "ql.syncore.org - US CENTRAL #1"
         /\ sinfo["Environment"] = "Linux"
         /\ sinfo["Folder"] = "baseq3"
         /\ sinfo["Players"] = 2

\* C15 as stated: the test packet is 144 bytes long and decodes, in fixed
\* field order with the extra fields its flag byte selects, to the name,
\* environment, folder and player count of the test, without error.
C15_Fixture144Decodes ==
  /\ (pkt = TestPacket => Len(pkt) = 144)
  /\ FieldsInOrder
  /\ FixtureDecoded

\* C15: the test packet, which is 156 bytes long, decodes in fixed field
\* order, with the extra fields its flag byte selects, to the name,
\* environment, folder and player count of the test, without error.
C15_FixtureDecodes ==
  /\ (pkt = TestPacket => Len(pkt) = 156)
  /\ FieldsInOrder
  /\ FixtureDecoded

\* C15 witness: the test packet is decoded to its end; its flag byte has
\* selected the port, the platform id, the keywords and the game id.
C15_Witness ==
  /\ pkt = TestPacket
  /\ pfield > Len(FieldOrder)
  /\ perr = "none"
  /\ DOMAIN sinfo \cap ExtraFields = {"Port", "SteamID", "Keywords", "GameID"}
  /\ sinfo["Port"] = 27960
  /\ sinfo["Keywords"] = "clanarena,syncore,texas"

(***************************************************************************)
(* The rows of the servers table                                           *)
(***************************************************************************)

\* C20: the servers table never holds two rows with the same (host, game)
\* and never a row whose game is Unspecified, whatever AddServersToDB calls
\* have run, overlapping ones included.
C20_RowsUnique ==
  /\ \A i, j \in DOMAIN table :
       i # j => (table[i].host # table[j].host \/ table[i].game # table[j].game)
  /\ \A i \in DOMAIN table : table[i].game # GameUnspecified

(***************************************************************************)
(* Fan-in of a batch                                                       *)
(***************************************************************************)

\* Workers of the running round that have not called wg.Done yet.
Unfinished == {h \in HostAddrs : wpc[h] \in {"query", "got", "recorded"}}

\* C16: in a batch the WaitGroup counter is the number of workers that have
\* not finished (each worker signals once, on either exit path), the batch
\* leaves its wait only when every worker has finished, and a batch that
\* has launched its workers eventually returns.
C16_FanInNeverStalls ==
  /\ [](bpc \in {"wait", "retrywait"} => wg = Cardinality(Unfinished))
  /\ [][(bpc = "wait" /\ bpc' # "wait") => Unfinished = {}]_vars
  /\ (bpc = "wait" ~> bpc = "idle")

\* C16 witness: wg.Wait is about to return in a batch of two hosts, one
\* worker having left by the failing path and one by the storing path.
C16_Witness ==
  /\ bpc = "wait"
  /\ wg = 0
  /\ \E h1, h2 \in Range(servers) :
       /\ wpc[h1] = "done" /\ InFailed(h1)
       /\ wpc[h2] = "done" /\ InMap(h2)

(***************************************************************************)
(* The retry step of a batch and the order of the batches                  *)
(***************************************************************************)

\* C17: the retry step is invoked with exactly the hosts that failed in the
\* first round and its workers are workers of those hosts; a host that
\* succeeded in the first round is queried once only and keeps its entry
\* in the map; every host that succeeded in a retry round is in the final
\* map.
C17_RetryOnlyFailed ==
  /\ (bpc = "retry" /\ round = 0) => f = failed
  /\ bpc = "retrywait" =>
       \A h \in HostAddrs : wpc[h] # "none" => InFailed(h)
  /\ bpc \in {"retry", "retrywait", "merged"} =>
       \A h \in Range(servers) \ failed : attempts[h] = 1 /\ InMap(h)
  /\ bpc = "merged" => \A h \in DOMAIN retried : InMap(h)

\* C17 witness: at the end of an info batch one host is in the map from
\* the first round, queried once, and another is there from a retry round.
C17_Witness ==
  /\ bpc = "merged"
  /\ pc = "info"
  /\ \E h1, h2 \in Range(servers) :
       /\ ~InFailed(h1) /\ InMap(h1) /\ attempts[h1] = 1
       /\ InFailed(h2) /\ h2 \in DOMAIN retried /\ InMap(h2)
       /\ attempts[h2] > 1

\* The ignore flag of a kind, read from the filter.
IgnoreFlag(kind) ==
  IF kind = "info" THEN filter.HasIgnoreInfo
  ELSE IF kind = "players" THEN filter.HasIgnorePlayers
  ELSE filter.HasIgnoreRules

\* The place of a position of retrieve in the order players, rules, info,
\* buildServerList.
Turn(p) ==
  CASE p \in {"start", "check"} -> 0
    [] p = "players" -> 1
    [] p = "rules" -> 2
    [] p = "info" -> 3
    [] OTHER -> 4

\* C18: no query of an ignored kind is sent; a kind is queried only once
\* retrieve has reached it, so after the kinds before it; a batch and its
\* workers run only while retrieve is at the batch's kind, so each batch,
\* retries included, is over before the next one and before
\* buildServerList.
C18_KindsSequential ==
  /\ \A k \in kindsQueried : ~IgnoreFlag(k) /\ Turn(k) <= Turn(pc)
  /\ bpc # "idle" => (pc \in Kinds /\ ~IgnoreFlag(pc))
  /\ bpc = "idle" => (wg = 0 /\ wpc = NoWorkers)
  /\ pc = "players" => (rulemap = EmptyMap /\ infomap = EmptyMap)
  /\ pc = "rules" => infomap = EmptyMap

\* C18 witness: with rules ignored, the players and the info batch have
\* queried hosts, no rules query was sent, and the list is being built.
C18_Witness ==
  /\ filter.HasIgnoreRules
  /\ kindsQueried = {"players", "info"}
  /\ pc = "loop"
  /\ bi > 1

\* C19: at most one retrieve call started by Run is in progress.
C19_OneBatchAtATime ==
  Cardinality({i \in DOMAIN batch : batch[i] = "running"}) <= 1

(***************************************************************************)
(* Independence of the interleaving of the workers                         *)
(***************************************************************************)

\* The first-round query of host h ended with an error the batch counts as
\* a failure.
FailedQuery(h) == wres[h].err # "nil" /\ wres[h].err # NoDataOf(pc)

\* The hosts a list of servers was made for, in the order of the list.
Origins(list) == [i \in DOMAIN list |-> <<list[i].IP, list[i].Port>>]

\* Index of host h in the sequence of hosts s.
IndexIn(s, h) == CHOOSE i \in DOMAIN s : s[i] = h

\* The hosts of t are hosts of s and come in the order they have in s.
InOrderOf(t, s) ==
  /\ \A i \in DOMAIN t : t[i] \in Range(s)
  /\ \A i, j \in DOMAIN t : i < j => IndexIn(s, t[i]) < IndexIn(s, t[j])

\* C21: once every first-round worker has recorded, the success map and
\* the failed set are what the query outcomes alone determine, whatever
\* the order in which the workers ran; Servers and FailedServers follow
\* the order of the host sequence.
C21_InterleavingIndependent ==
  /\ (bpc = "wait" /\ wg = 0) =>
       /\ failed = {h \in Range(servers) : FailedQuery(h)}
       /\ DOMAIN m = {h \in Range(servers) : ~FailedQuery(h)}
       /\ \A h \in DOMAIN m : m[h] = wres[h].val
  /\ InOrderOf(Origins(sl.Servers), servers)
  /\ InOrderOf(sl.FailedServers, servers)

\* C21 witness: a rules batch of two hosts has been recorded, the first
\* host of the sequence failed and the second succeeded.
C21_Witness ==
  /\ pc = "rules"
  /\ bpc = "wait"
  /\ wg = 0
  /\ Len(servers) = 2
  /\ FailedQuery(servers[1])
  /\ ~FailedQuery(servers[2])

(***************************************************************************)
(* Recording of the emitted hosts and their IDs                            *)
(***************************************************************************)

\* C22: every server of the list is handed to AddServersToDB under the
\* address it is emitted with, the ID lookup of the batch starts only when
\* that recording has finished, and every server of the returned list has
\* a non-zero ID.
C22_RecordedBeforeLookup ==
  /\ \A i \in DOMAIN sl.Servers : sl.Servers[i].Host \in Range(dbhosts)
  /\ idpc # "none" => call[1].pc = "returned"
  /\ pc = "write" => \A i \in DOMAIN sl.Servers : sl.Servers[i].ID # 0

(***************************************************************************)
(* The transaction of an AddServersToDB call                               *)
(***************************************************************************)

\* C23: a returned call whose insert failed has stored no row and has
\* finished its transaction once, by Rollback alone; a returned call
\* whose inserts all succeeded and whose commit went through has stored
\* exactly the pairs it found missing.
C23_AllOrNothing ==
  \A c \in 1..MaxCalls : call[c].pc = "returned" =>
    /\ call[c].txexecerr =>
         (call[c].stored = <<>> /\ call[c].txcalls = <<"Rollback">>)
    /\ call[c].tx = "committed" =>
         Range(call[c].stored) =
           {[host |-> h, game |-> call[c].hostsgames[h]] :
              h \in call[c].toInsert}
====
